---- MODULE Spec2Model ----
(***************************************************************************)
(* Model of config/config-package.py: one invocation of the script is a    *)
(* run; the registry files (packages.txt), the target repositories'        *)
(* .meta.cfg and their branches persist from one run to the next.          *)
(*                                                                         *)
(* A Python str is a sequence of tokens (TLA+ strings); "\n" is the line   *)
(* terminator token.  File contents are such sequences.                    *)
(***************************************************************************)
EXTENDS Integers, Sequences, FiniteSets, TLC

\* ---------------------------------------------------------------- bounds
\* number of invocations of the script in one behaviour
MaxRuns == 2
\* largest minor of a minimum version handed to get_supported_versions
\* when it is exercised on its own (SpecVersions)
MaxMinMinor == 12

\* ------------------------------------------------------ program constants
\* MAX_PYTHON = (3, 9)
MAX_PYTHON == <<3, 9>>

NL == "\n"

\* choices of the positional argument `type`
AllConfigTypes == {"buildout-recipe", "pure-python", "pytest"}
\* the config types the runs are started with
ConfigTypes == {"pure-python", "pytest"}

\* dest='min_version': the default (3, 6) and the consts (3, 5) .. (3, 9)
AllMinVersions == {<<3, 5>>, <<3, 6>>, <<3, 7>>, <<3, 8>>, <<3, 9>>}
\* the minimum versions the runs are started with: the default and the largest
MinVersions == {<<3, 6>>}

\* names (path.name) of the directories the script is pointed at
RepoNames == {<<"a">>, <<"b">>}
\* a directory without .git
NoClone == <<"c">>
PathNames == RepoNames \cup {NoClone}

\* (path / '.git').exists()
IsGitClone(name) == name \in RepoNames

\* ------------------------------------------------------------ str helpers
\* str(n) for the small integers that occur
Str(n) ==
    IF n = 0 THEN "0" ELSE IF n = 1 THEN "1" ELSE IF n = 2 THEN "2"
    ELSE IF n = 3 THEN "3" ELSE IF n = 4 THEN "4" ELSE IF n = 5 THEN "5"
    ELSE IF n = 6 THEN "6" ELSE IF n = 7 THEN "7" ELSE IF n = 8 THEN "8"
    ELSE IF n = 9 THEN "9" ELSE IF n = 10 THEN "10" ELSE IF n = 11 THEN "11"
    ELSE IF n = 12 THEN "12" ELSE IF n = 13 THEN "13" ELSE "14"

\* str(b) of a bool
StrBool(b) == IF b THEN "True" ELSE "False"

\* str.lower() on the tokens that are lowered
Lower(s) ==
    IF s = "Y" THEN "y" ELSE IF s = "N" THEN "n"
    ELSE IF s = "True" THEN "true" ELSE IF s = "False" THEN "false" ELSE s

\* str.splitlines() of a token sequence
RECURSIVE SplitFrom(_, _, _)
SplitFrom(s, i, cur) ==
    IF i > Len(s) THEN (IF cur = <<>> THEN <<>> ELSE <<cur>>)
    ELSE IF s[i] = NL THEN <<cur>> \o SplitFrom(s, i + 1, <<>>)
    ELSE SplitFrom(s, i + 1, Append(cur, s[i]))

splitlines(s) == SplitFrom(s, 1, <<>>)

Range(seq) == {seq[i] : i \in DOMAIN seq}

StartsWith(s, prefix) ==
    /\ Len(s) >= Len(prefix)
    /\ SubSeq(s, 1, Len(prefix)) = prefix

\* "".join(parts)
RECURSIVE Join(_)
Join(parts) == IF parts = <<>> THEN <<>> ELSE Head(parts) \o Join(Tail(parts))

\* text % dict(...) and text.format(**kw): every placeholder token that is a
\* key of `d` is replaced by its value
RECURSIVE Substitute(_, _)
Substitute(text, d) ==
    IF text = <<>> THEN <<>>
    ELSE (IF Head(text) \in DOMAIN d THEN d[Head(text)] ELSE <<Head(text)>>)
         \o Substitute(Tail(text), d)

\* ------------------------------------------------------- module constants
\* META_HINT.format(config_type=config_type)
META_HINT(config_type) ==
    << "# Generated from:", NL,
       "# https://github.com/gocept/meta/tree/master/config/", config_type, NL >>

TESTS_MATRIX_PYPY ==
    << NL, "        - [\"", "pypy2", "\", \"", "pypy", "\"]",
       NL, "        - [\"", "pypy3", "\", \"", "pypy3", "\"]" >>

TOX_INI_PYPY ==
    << NL, "    ", "pypy", ",", NL, "    ", "pypy3", "," >>

\* ------------------------------------------------ version range calculator
\* [(3, minor) for minor in range(lo, hi)]
RECURSIVE MinorRange(_, _)
MinorRange(lo, hi) ==
    IF lo >= hi THEN <<>> ELSE << <<3, lo>> >> \o MinorRange(lo + 1, hi)

get_supported_versions_off_by_one(a) ==
    LET versions == MinorRange(a.min_version[2], MAX_PYTHON[2])
    IN  IF a.support_legacy_python THEN << <<2, 7>> >> \o versions ELSE versions

get_supported_versions(a) ==
    LET versions == MinorRange(a.min_version[2], MAX_PYTHON[2] + 1)
    IN  IF a.support_legacy_python THEN << <<2, 7>> >> \o versions ELSE versions

\* f"py{major}{minor}"
EnvName(v) == << "py", Str(v[1]), Str(v[2]) >>

get_tox_ini_versions(versions) ==
    Join([i \in DOMAIN versions |->
            << NL, "    " >> \o EnvName(versions[i]) \o << "," >>])

get_test_matrix_versions(versions) ==
    Join([i \in DOMAIN versions |->
            << NL, "        - [\"", Str(versions[i][1]), ".", Str(versions[i][2]),
               "\", \"" >> \o EnvName(versions[i]) \o << "\"]" >>])

\* ------------------------------------------------------------- templates
\* The template files the script reads (config/<type>/..., config/default/...):
\* their placeholders are the keys the script substitutes.
SetupCfgTemplate ==
    << "[bdist_wheel]", NL, "universal = ", "%(universal_wheel)s", NL >>

ToxIniTemplate ==
    << "[tox]", NL, "envlist =", "%(python_environs)s", "%(additional_environs)s", NL,
       "coverage report ", "%(coverage_report_options)s", NL >>

TestsYmlTemplate ==
    << "matrix:", NL, "config:", "%(version_config)s", "%(additional_config)s", NL >>

CoveragercTemplate == << "[run]", NL, "source = ", "{package_name}", NL >>
ManifestTemplate == << "include *.rst", NL >>
EditorconfigTemplate == << "root = true", NL >>
GitignoreTemplate == << "*.egg-info", NL >>

\* ------------------------------------------------------- ConfigParser
\* An option list is a sequence of <<key, value>> pairs in insertion order;
\* a value is a str (token sequence).
HasOption(opts, key) == \E i \in DOMAIN opts : opts[i][1] = key

GetOption(opts, key) ==
    opts[CHOOSE i \in DOMAIN opts : opts[i][1] = key][2]

\* meta_opts[key] = value
SetOption(opts, key, value) ==
    IF HasOption(opts, key)
    THEN [i \in DOMAIN opts |-> IF opts[i][1] = key THEN <<key, value>> ELSE opts[i]]
    ELSE Append(opts, <<key, value>>)

setdefault_overwrite(opts, key, default) == SetOption(opts, key, default)

\* meta_opts.setdefault(key, default): the options afterwards
setdefault(opts, key, default) ==
    IF HasOption(opts, key) THEN opts ELSE SetOption(opts, key, default)

\* meta_opts.getboolean(key, fallback) on the values str(bool) writes
getboolean(opts, key, fallback) ==
    IF ~HasOption(opts, key) THEN fallback
    ELSE LET v == GetOption(opts, key)
         IN  Len(v) = 1 /\ Lower(v[1]) \in {"1", "yes", "true", "on"}

\* ConfigParser.write: the [meta] section, "key = value" lines, a blank line
RECURSIVE WriteOptions(_)
WriteOptions(opts) ==
    IF opts = <<>> THEN <<>>
    ELSE << Head(opts)[1], " = " >> \o Head(opts)[2] \o << NL >>
         \o WriteOptions(Tail(opts))

ConfigWrite(opts) == << "[meta]", NL >> \o WriteOptions(opts) \o << NL >>

IsCommentLine(line) ==
    line # <<>> /\ line[1] \in {"# Generated from:",
                               "# https://github.com/gocept/meta/tree/master/config/"}

\* ConfigParser.read: comment, blank and section lines carry no option
RECURSIVE ParseLines(_)
ParseLines(lines) ==
    IF lines = <<>> THEN <<>>
    ELSE LET l == Head(lines)
         IN  IF Len(l) >= 2 /\ l[2] = " = " /\ ~IsCommentLine(l)
             THEN << <<l[1], SubSeq(l, 3, Len(l))>> >> \o ParseLines(Tail(lines))
             ELSE ParseLines(Tail(lines))

ConfigRead(text) == ParseLines(splitlines(text))

\* --------------------------------------------------------------- call()
\* exit codes of the subprocesses
ReturnCodes == {0, 2}
\* what the operator types at 'Proceed anyway (y/N)?'
Answers == {"y", "Y", "n"}
NoPrompt == "<no prompt>"

\* subprocess.run(...) and, on failure, input().lower()
CallResults ==
    {[returncode |-> 0, answer |-> NoPrompt]}
    \cup {[returncode |-> rc, answer |-> Lower(ans)] :
              rc \in ReturnCodes \ {0}, ans \in Answers}

ProceedsAlways(r) == TRUE

\* call() returns (does not sys.exit): lines 60-65
Proceeds(r) == r.returncode = 0 \/ r.answer = "y"

SysExitStatusOne(returncode) == 1

\* sys.exit(result.returncode): the exit status of the process
SysExitStatus(returncode) == returncode % 256

\* stdout of a subprocess: what it prints when it succeeds, nothing otherwise
Stdout(r, out) == IF r.returncode = 0 THEN out ELSE <<>>

\* the captured stdout of `git log -n1 --format=format:%H`, kept symbolic
CommitId == << "%H" >>

\* ---------------------------------------------------------------- state
VARIABLES
    \* persistent: survives the process
    packages_txt,       \* config/<type>/packages.txt, by config type
    meta_cfg_file,      \* <repo>/.meta.cfg, by repository name
    repo_branches,      \* the local branches of each repository
    repo_coveragerc,    \* the repositories whose working tree has a .coveragerc
    runs,               \* invocations started so far
    \* the running process
    pc,                 \* position in the script
    args,               \* parser.parse_args()
    getcwd,             \* the process's working directory (os.getcwd())
    cwd,                \* cwd = os.getcwd() saved before the try block
    exit_code,          \* exit status once the process has ended
    last_call,          \* the latest call() of this run: command, returncode and
                        \* input().lower()
    issued,             \* branch, commit and push commands this run has called
    meta_cfg,           \* options of meta_cfg['meta'] in memory
    with_pypy,
    support_legacy_python,
    add_coveragerc,
    rm_coveragerc,
    versions,
    versions_config,
    python_environs,
    written,            \* files this run wrote into the target repository
    branches,           \* the list read from `git branch`
    updating,
    reported            \* the final status line printed

vars == << packages_txt, meta_cfg_file, repo_branches, repo_coveragerc, runs, pc, args, getcwd, cwd,
           exit_code, last_call, issued, meta_cfg, with_pypy, support_legacy_python,
           add_coveragerc, rm_coveragerc, versions, versions_config,
           python_environs, written, branches, updating, reported >>

persistent == << packages_txt, meta_cfg_file, repo_branches, repo_coveragerc >>

\* the directory the script is started in
StartDir == <<"meta">>

NoFile == [exists |-> FALSE, data |-> <<>>]
FileOf(text) == [exists |-> TRUE, data |-> text]

NoFiles == [f \in {} |-> <<>>]
Put(files, name, text) ==
    [f \in (DOMAIN files) \cup {name} |-> IF f = name THEN text ELSE files[f]]

NoArgs ==
    [path |-> <<>>, type |-> "", no_push |-> FALSE, with_pypy |-> FALSE,
     support_legacy_python |-> FALSE, min_version |-> <<3, 6>>]

\* what argparse can return
ArgsSet ==
    [path : PathNames, type : ConfigTypes, no_push : BOOLEAN, with_pypy : BOOLEAN,
     support_legacy_python : BOOLEAN, min_version : MinVersions]

NoCall == [cmd |-> "", returncode |-> 0, answer |-> NoPrompt]

\* branch_name = f'config-with-{config_type}'
BranchName(config_type) == << "config-with-", config_type >>

\* `git branch --format %(refname:short)` prints the branches sorted, one a line
AllBranchesSorted ==
    << BranchName("buildout-recipe"), BranchName("pure-python"),
       BranchName("pytest"), <<"master">> >>

BranchOutput(bs) ==
    LET listed == SelectSeq(AllBranchesSorted, LAMBDA b : b \in bs)
    IN  Join([i \in DOMAIN listed |-> listed[i] \o << NL >>])

\* a .meta.cfg an earlier run wrote, its fail-under since edited by hand
EarlierMetaCfg ==
    META_HINT("pure-python") \o
    ConfigWrite(<< <<"template", <<"pure-python">>>>, <<"commit-id", CommitId>>,
                   <<"with-pypy", <<"False">>>>,
                   <<"support_legacy_python", <<"False">>>>,
                   <<"fail-under", <<"85">>>> >>)

\* repository a was configured before, repository b never
InitMetaFile(name) == IF name = <<"a">> THEN FileOf(EarlierMetaCfg) ELSE NoFile

ProcessStart ==
    /\ pc = "idle"
    /\ args = NoArgs
    /\ getcwd = StartDir
    /\ cwd = <<>>
    /\ exit_code = 0
    /\ last_call = NoCall
    /\ issued = {}
    /\ meta_cfg = <<>>
    /\ with_pypy = FALSE
    /\ support_legacy_python = FALSE
    /\ add_coveragerc = FALSE
    /\ rm_coveragerc = FALSE
    /\ versions = <<>>
    /\ versions_config = <<>>
    /\ python_environs = <<>>
    /\ written = NoFiles
    /\ branches = <<>>
    /\ updating = FALSE
    /\ reported = ""

Init ==
    /\ packages_txt = [t \in ConfigTypes |->
                           IF t = "pure-python" THEN << "a", NL >> ELSE <<>>]
    /\ meta_cfg_file = [n \in RepoNames |-> InitMetaFile(n)]
    /\ repo_branches = [n \in RepoNames |-> {<<"master">>}]
    /\ repo_coveragerc = {<<"b">>}
    /\ runs = 0
    /\ ProcessStart

\* ------------------------------------------------------------ operations
RegistryAppendAlways(text, name) == text \o name \o << NL >>

\* lines 138-146: known_packages = f.read().splitlines(); append when absent
RegistryUpdate(text, name) ==
    LET known_packages == splitlines(text)
    IN  IF name \in Range(known_packages) THEN text ELSE text \o name \o << NL >>

ResolveFlagCliOnly(existing, cli) == cli

\* meta_opts.getboolean(key, False) or args.<flag>
ResolveFlag(existing, cli) == existing \/ cli

KeepCwd(saved, current) == current

\* finally: os.chdir(cwd)
RestoredCwd(saved, current) == saved

BranchNeverListed(branch_name, listed) == FALSE

\* branch_name in branches
BranchListed(branch_name, listed) == branch_name \in Range(listed)

\* copy_with_meta(source, destination, config_type, **kw): what is written
copy_with_meta(f_data, config_type, kw) ==
    META_HINT(config_type) \o
    (IF DOMAIN kw # {} THEN Substitute(f_data, kw) ELSE f_data)

NoKw == [k \in {} |-> <<>>]

\* the commands that change branches, history or the remote
BranchCommands == {"git checkout", "git checkout -b", "git commit", "git push"}

Called(cmd, r) ==
    /\ last_call' = [cmd |-> cmd, returncode |-> r.returncode, answer |-> r.answer]
    /\ issued' = issued \cup ({cmd} \cap BranchCommands)

\* an uncaught exception or sys.exit before the try block
ExitOutsideTry(code) ==
    /\ pc' = "exited"
    /\ exit_code' = code
    /\ UNCHANGED getcwd

\* an uncaught exception or sys.exit inside the try block: the finally clause runs
ExitInsideTry(code) ==
    /\ pc' = "exited"
    /\ exit_code' = code
    /\ getcwd' = RestoredCwd(cwd, getcwd)

\* lines 129-146: parse the arguments, check the clone, update the registry
Start ==
    /\ pc = "idle"
    /\ runs < MaxRuns
    /\ \E a \in ArgsSet :
        /\ args' = a
        /\ IF ~IsGitClone(a.path)
           THEN /\ ExitOutsideTry(1)
                /\ UNCHANGED packages_txt
           ELSE /\ packages_txt' =
                       [packages_txt EXCEPT ![a.type] = RegistryUpdate(@, a.path)]
                /\ pc' = "load_meta"
                /\ UNCHANGED << exit_code, getcwd >>
    /\ runs' = runs + 1
    /\ UNCHANGED << last_call, meta_cfg_file, repo_branches, repo_coveragerc, cwd,
                    issued, meta_cfg,
                    with_pypy, support_legacy_python, add_coveragerc, rm_coveragerc,
                    versions, versions_config, python_environs, written, branches,
                    updating, reported >>

\* lines 150-164: read .meta.cfg, set template and commit-id, resolve the flags
LoadMeta ==
    /\ pc = "load_meta"
    /\ \E r \in CallResults :
        LET file == meta_cfg_file[args.path]
            loaded == IF file.exists THEN ConfigRead(file.data) ELSE <<>>
            o1 == SetOption(loaded, "template", << args.type >>)
            o2 == SetOption(o1, "commit-id", CommitId)
            wp == ResolveFlag(getboolean(o2, "with-pypy", FALSE), args.with_pypy)
            o3 == SetOption(o2, "with-pypy", << StrBool(wp) >>)
            sl == ResolveFlag(getboolean(o3, "support_legacy_python", FALSE),
                              args.support_legacy_python)
            o4 == SetOption(o3, "support_legacy_python", << StrBool(sl) >>)
        IN  /\ Called("git log", r)
            /\ IF Proceeds(r)
               THEN /\ meta_cfg' = o4
                    /\ with_pypy' = wp
                    /\ support_legacy_python' = sl
                    /\ pc' = "copy"
                    /\ UNCHANGED << exit_code, getcwd >>
               ELSE /\ meta_cfg' = o1
                    /\ ExitOutsideTry(SysExitStatus(r.returncode))
                    /\ UNCHANGED << with_pypy, support_legacy_python >>
    /\ UNCHANGED << persistent, runs, args, cwd, add_coveragerc, rm_coveragerc,
                    versions, versions_config, python_environs, written, branches,
                    updating, reported >>

\* (config_type_path / 'coveragerc').exists(): the template types that ship one
TemplateHasCoveragerc(config_type) == config_type = "pure-python"

\* lines 167-186: copy the template files; tmpl_cov is whether the config type
\* has a coveragerc, repo_cov whether the repository has a .coveragerc
CopyTemplates ==
    /\ pc = "copy"
    /\ \E io_ok \in BOOLEAN :
        IF ~io_ok
        THEN /\ ExitOutsideTry(1)
             /\ UNCHANGED << written, add_coveragerc, rm_coveragerc, repo_coveragerc >>
        ELSE LET t == args.type
                 tmpl_cov == TemplateHasCoveragerc(t)
                 repo_cov == args.path \in repo_coveragerc
                 w1 == Put(NoFiles, "setup.cfg", copy_with_meta(SetupCfgTemplate, t, NoKw))
                 w2 == Put(w1, "MANIFEST.in", copy_with_meta(ManifestTemplate, t, NoKw))
                 w3 == Put(w2, ".editorconfig",
                           copy_with_meta(EditorconfigTemplate, t, NoKw))
                 w4 == Put(w3, ".gitignore", copy_with_meta(GitignoreTemplate, t, NoKw))
                 w5 == Put(w4, ".coveragerc",
                           copy_with_meta(CoveragercTemplate, t,
                                          ("{package_name}" :> args.path)))
             IN  /\ written' = IF tmpl_cov THEN w5 ELSE w4
                 /\ add_coveragerc' = tmpl_cov
                 /\ rm_coveragerc' = (~tmpl_cov /\ repo_cov)
                 /\ repo_coveragerc' = IF tmpl_cov
                                       THEN repo_coveragerc \cup {args.path}
                                       ELSE repo_coveragerc
                 /\ pc' = "render"
                 /\ UNCHANGED << exit_code, getcwd >>
    /\ UNCHANGED << last_call, packages_txt, meta_cfg_file, repo_branches, runs, args, cwd, issued, meta_cfg, with_pypy,
                    support_legacy_python, versions, versions_config, python_environs,
                    branches, updating, reported >>

\* universal_wheel of lines 199-201
UniversalWheel(legacy) == IF legacy THEN 1 ELSE 0

\* lines 195-202: setup.cfg as it is written again from the template
RenderedSetupCfg(legacy) ==
    Substitute(SetupCfgTemplate,
               ("%(universal_wheel)s" :> << Str(UniversalWheel(legacy)) >>))

\* lines 206-219: tox.ini
RenderedToxIni(fail_under, environs, pypy) ==
    Substitute(ToxIniTemplate,
        ("%(coverage_report_options)s" :> (<<"--fail-under=">> \o fail_under))
        @@ ("%(python_environs)s" :> environs)
        @@ ("%(additional_environs)s" :> (IF pypy THEN TOX_INI_PYPY ELSE <<>>)))

\* lines 222-233: .github/workflows/tests.yml
RenderedTestsYml(version_config, pypy) ==
    Substitute(TestsYmlTemplate,
        ("%(version_config)s" :> version_config)
        @@ ("%(additional_config)s" :> (IF pypy THEN TESTS_MATRIX_PYPY ELSE <<>>)))

\* lines 188-233: compute the versions, then write setup.cfg, tox.ini and tests.yml
RenderFiles ==
    /\ pc = "render"
    /\ versions' = get_supported_versions(args)
    /\ versions_config' = get_test_matrix_versions(versions')
    /\ python_environs' = get_tox_ini_versions(versions')
    /\ meta_cfg' = setdefault(meta_cfg, "fail-under", <<"0">>)
    /\ LET fail_under == GetOption(meta_cfg', "fail-under")
           w1 == Put(written, "setup.cfg", RenderedSetupCfg(support_legacy_python))
           w2 == Put(w1, "tox.ini",
                     RenderedToxIni(fail_under, python_environs', with_pypy))
           w3 == Put(w2, ".github/workflows/tests.yml",
                     RenderedTestsYml(versions_config', with_pypy))
       IN  written' = w3
    /\ pc' = "chdir"
    /\ UNCHANGED << last_call, persistent, runs, args, getcwd, cwd, exit_code, issued,
                    with_pypy, support_legacy_python, add_coveragerc, rm_coveragerc, branches,
                    updating, reported >>

\* lines 235-238
Chdir ==
    /\ pc = "chdir"
    /\ cwd' = getcwd
    /\ getcwd' = args.path
    /\ pc' = "rm_bootstrap"
    /\ UNCHANGED << last_call, persistent, runs, args, exit_code, issued, meta_cfg,
                    with_pypy, support_legacy_python, add_coveragerc, rm_coveragerc,
                    versions, versions_config, python_environs, written, branches,
                    updating, reported >>

\* call(...) inside the try block, the script going on at `next` when it returns
TryCall(cmd, r, next) ==
    /\ Called(cmd, r)
    /\ IF Proceeds(r)
       THEN /\ pc' = next
            /\ UNCHANGED << exit_code, getcwd >>
       ELSE ExitInsideTry(SysExitStatus(r.returncode))

\* a step of the try block that calls nothing
Skip(next) ==
    /\ pc' = next
    /\ UNCHANGED << exit_code, getcwd, last_call, issued >>

\* lines 239-240
RmBootstrap ==
    /\ pc = "rm_bootstrap"
    /\ \E exists \in BOOLEAN, r \in CallResults :
        IF exists THEN TryCall("git rm bootstrap.py", r, "rm_travis")
        ELSE Skip("rm_travis")
    /\ UNCHANGED << persistent, runs, args, cwd, meta_cfg, with_pypy,
                    support_legacy_python, add_coveragerc, rm_coveragerc, versions,
                    versions_config, python_environs, written, branches, updating,
                    reported >>

\* lines 241-242
RmTravis ==
    /\ pc = "rm_travis"
    /\ \E exists \in BOOLEAN, r \in CallResults :
        IF exists THEN TryCall("git rm .travis.yml", r, "tox")
        ELSE Skip("tox")
    /\ UNCHANGED << persistent, runs, args, cwd, meta_cfg, with_pypy,
                    support_legacy_python, add_coveragerc, rm_coveragerc, versions,
                    versions_config, python_environs, written, branches, updating,
                    reported >>

\* line 243
RunTox ==
    /\ pc = "tox"
    /\ \E r \in CallResults : TryCall("tox", r, "write_meta")
    /\ UNCHANGED << persistent, runs, args, cwd, meta_cfg, with_pypy,
                    support_legacy_python, add_coveragerc, rm_coveragerc, versions,
                    versions_config, python_environs, written, branches, updating,
                    reported >>

\* lines 246-251: the header and meta_cfg.write(meta_f)
MetaCfgText == META_HINT(args.type) \o ConfigWrite(meta_cfg)

WriteMeta ==
    /\ pc = "write_meta"
    /\ \E io_ok \in BOOLEAN :
        IF io_ok
        THEN /\ meta_cfg_file' = [meta_cfg_file EXCEPT ![args.path] = FileOf(MetaCfgText)]
             /\ written' = Put(written, ".meta.cfg", MetaCfgText)
             /\ pc' = "list_branches"
             /\ UNCHANGED << exit_code, getcwd >>
        ELSE /\ ExitInsideTry(1)
             /\ UNCHANGED << meta_cfg_file, written >>
    /\ UNCHANGED << last_call, packages_txt, repo_branches, repo_coveragerc, runs,
                    args, cwd, issued,
                    meta_cfg, with_pypy, support_legacy_python, add_coveragerc,
                    rm_coveragerc, versions, versions_config, python_environs,
                    branches, updating, reported >>

\* lines 253-255
ListBranches ==
    /\ pc = "list_branches"
    /\ \E r \in CallResults :
        /\ TryCall("git branch", r, "checkout")
        /\ branches' = IF Proceeds(r)
                       THEN splitlines(Stdout(r, BranchOutput(repo_branches[args.path])))
                       ELSE branches
    /\ UNCHANGED << persistent, runs, args, cwd, meta_cfg, with_pypy,
                    support_legacy_python, add_coveragerc, rm_coveragerc, versions,
                    versions_config, python_environs, written, updating, reported >>

\* lines 256-261: git refuses to create a branch that exists
Checkout ==
    /\ pc = "checkout"
    /\ LET branch_name == BranchName(args.type)
           exists == branch_name \in repo_branches[args.path]
       IN  \E r \in CallResults :
            IF BranchListed(branch_name, branches)
            THEN /\ TryCall("git checkout", r, "git_add")
                 /\ updating' = IF Proceeds(r) THEN TRUE ELSE updating
                 /\ UNCHANGED repo_branches
            ELSE /\ exists => r.returncode # 0
                 /\ TryCall("git checkout -b", r, "git_add")
                 /\ updating' = IF Proceeds(r) THEN FALSE ELSE updating
                 /\ repo_branches' =
                        IF r.returncode = 0
                        THEN [repo_branches EXCEPT ![args.path] = @ \cup {branch_name}]
                        ELSE repo_branches
    /\ UNCHANGED << packages_txt, meta_cfg_file, repo_coveragerc, runs, args, cwd,
                    meta_cfg, with_pypy,
                    support_legacy_python, add_coveragerc, rm_coveragerc, versions,
                    versions_config, python_environs, written, branches, reported >>

\* lines 262-268: git add, then git rm or git add of .coveragerc;
\* rm_coveragerc and add_coveragerc are never both set
Stage ==
    /\ pc = "git_add"
    /\ \E r1 \in CallResults, r2 \in CallResults :
        IF ~Proceeds(r1) \/ (~rm_coveragerc /\ ~add_coveragerc)
        THEN TryCall("git add", r1, "commit")
        ELSE IF rm_coveragerc THEN TryCall("git rm .coveragerc", r2, "commit")
        ELSE TryCall("git add .coveragerc", r2, "commit")
    /\ repo_coveragerc' = IF last_call'.cmd = "git rm .coveragerc"
                             /\ last_call'.returncode = 0
                          THEN repo_coveragerc \ {args.path}
                          ELSE repo_coveragerc
    /\ UNCHANGED << packages_txt, meta_cfg_file, repo_branches, runs, args, cwd, meta_cfg, with_pypy,
                    support_legacy_python, add_coveragerc, rm_coveragerc, versions,
                    versions_config, python_environs, written, branches, updating,
                    reported >>

\* line 269
Commit ==
    /\ pc = "commit"
    /\ \E r \in CallResults : TryCall("git commit", r, "push")
    /\ UNCHANGED << persistent, runs, args, cwd, meta_cfg, with_pypy,
                    support_legacy_python, add_coveragerc, rm_coveragerc, versions,
                    versions_config, python_environs, written, branches, updating,
                    reported >>

UpdatedMessage == "Updated the previously created PR."
CreateMessage == "Create a PR, using the URL shown above."

\* lines 270-279: push unless --no-push, print the status line, then the
\* finally clause and the normal exit
PushAndReport ==
    /\ pc = "push"
    /\ \E r \in CallResults :
        IF ~args.no_push /\ ~Proceeds(r)
        THEN /\ Called("git push", r)
             /\ ExitInsideTry(SysExitStatus(r.returncode))
             /\ UNCHANGED reported
        ELSE /\ IF ~args.no_push THEN Called("git push", r)
                ELSE UNCHANGED << last_call, issued >>
             /\ reported' = IF updating THEN UpdatedMessage ELSE CreateMessage
             /\ ExitInsideTry(0)
    /\ UNCHANGED << persistent, runs, args, cwd, meta_cfg, with_pypy,
                    support_legacy_python, add_coveragerc, rm_coveragerc, versions,
                    versions_config, python_environs, written, branches, updating >>

\* the operator invokes the script again: a new process
NextRun ==
    /\ pc = "exited"
    /\ runs < MaxRuns
    /\ pc' = "idle"
    /\ args' = NoArgs
    /\ getcwd' = StartDir
    /\ cwd' = <<>>
    /\ exit_code' = 0
    /\ last_call' = NoCall
    /\ issued' = {}
    /\ meta_cfg' = <<>>
    /\ with_pypy' = FALSE
    /\ support_legacy_python' = FALSE
    /\ add_coveragerc' = FALSE
    /\ rm_coveragerc' = FALSE
    /\ versions' = <<>>
    /\ versions_config' = <<>>
    /\ python_environs' = <<>>
    /\ written' = NoFiles
    /\ branches' = <<>>
    /\ updating' = FALSE
    /\ reported' = ""
    /\ UNCHANGED << persistent, runs >>

Next ==
    \/ Start
    \/ LoadMeta
    \/ CopyTemplates
    \/ RenderFiles
    \/ Chdir
    \/ RmBootstrap
    \/ RmTravis
    \/ RunTox
    \/ WriteMeta
    \/ ListBranches
    \/ Checkout
    \/ Stage
    \/ Commit
    \/ PushAndReport
    \/ NextRun

Spec == Init /\ [][Next]_vars

\* ------------------------------------------- the version range calculator
\* get_supported_versions and its two renderings applied to every minimum
\* version (3, 0) .. (3, MaxMinMinor), with and without legacy support
FnArgs ==
    {[NoArgs EXCEPT !.min_version = <<3, m>>, !.support_legacy_python = l] :
        m \in 0..MaxMinMinor, l \in BOOLEAN}

InitVersions ==
    /\ packages_txt = [t \in ConfigTypes |-> <<>>]
    /\ meta_cfg_file = [n \in RepoNames |-> NoFile]
    /\ repo_branches = [n \in RepoNames |-> {<<"master">>}]
    /\ repo_coveragerc = {}
    /\ runs = 0
    /\ pc = "fn_args"
    /\ args \in FnArgs
    /\ getcwd = StartDir
    /\ cwd = <<>>
    /\ exit_code = 0
    /\ last_call = NoCall
    /\ issued = {}
    /\ meta_cfg = <<>>
    /\ with_pypy = FALSE
    /\ support_legacy_python = FALSE
    /\ add_coveragerc = FALSE
    /\ rm_coveragerc = FALSE
    /\ versions = <<>>
    /\ versions_config = <<>>
    /\ python_environs = <<>>
    /\ written = NoFiles
    /\ branches = <<>>
    /\ updating = FALSE
    /\ reported = ""

\* line 189
ApplyGetSupportedVersions ==
    /\ pc = "fn_args"
    /\ versions' = get_supported_versions(args)
    /\ pc' = "fn_versions"
    /\ UNCHANGED << persistent, runs, args, getcwd, cwd, exit_code, last_call, issued,
                    meta_cfg, with_pypy, support_legacy_python, add_coveragerc,
                    rm_coveragerc, versions_config, python_environs, written,
                    branches, updating, reported >>

\* line 190
ApplyGetTestMatrixVersions ==
    /\ pc = "fn_versions"
    /\ versions_config' = get_test_matrix_versions(versions)
    /\ pc' = "fn_matrix"
    /\ UNCHANGED << persistent, runs, args, getcwd, cwd, exit_code, last_call, issued,
                    meta_cfg, with_pypy, support_legacy_python, add_coveragerc,
                    rm_coveragerc, versions, python_environs, written, branches,
                    updating, reported >>

\* line 191
ApplyGetToxIniVersions ==
    /\ pc = "fn_matrix"
    /\ python_environs' = get_tox_ini_versions(versions)
    /\ pc' = "fn_environs"
    /\ UNCHANGED << persistent, runs, args, getcwd, cwd, exit_code, last_call, issued,
                    meta_cfg, with_pypy, support_legacy_python, add_coveragerc,
                    rm_coveragerc, versions, versions_config, written, branches,
                    updating, reported >>

NextVersions ==
    \/ ApplyGetSupportedVersions
    \/ ApplyGetTestMatrixVersions
    \/ ApplyGetToxIniVersions

SpecVersions == InitVersions /\ [][NextVersions]_vars

\* ------------------------------------------------------------ observers
\* the run has written .meta.cfg
MetaWritten == ".meta.cfg" \in DOMAIN written

\* the latest call is the tox invocation, and it ...
ToxPassed == last_call.cmd = "tox" /\ last_call.returncode = 0
ToxOverridden ==
    last_call.cmd = "tox" /\ last_call.returncode # 0 /\ last_call.answer = "y"
ToxDeclined ==
    last_call.cmd = "tox" /\ last_call.returncode # 0 /\ last_call.answer # "y"

\* index of the first occurrence of a token, 0 when there is none
RECURSIVE IndexFrom(_, _, _)
IndexFrom(text, token, i) ==
    IF i > Len(text) THEN 0
    ELSE IF text[i] = token THEN i
    ELSE IndexFrom(text, token, i + 1)

IndexOf(text, token) == IndexFrom(text, token, 1)

\* the options stored in a .meta.cfg
StoredOptions(file) == IF file.exists THEN ConfigRead(file.data) ELSE <<>>

\* a flag is stored as true in a .meta.cfg
StoredTrue(file, key) == getboolean(StoredOptions(file), key, FALSE)
PersistedTrue(name, key) == StoredTrue(meta_cfg_file[name], key)

StoredFailUnder(file) ==
    LET opts == StoredOptions(file)
    IN  IF HasOption(opts, "fail-under")
        THEN << GetOption(opts, "fail-under") >>
        ELSE <<>>
HasFailUnder(name) == StoredFailUnder(meta_cfg_file[name]) # <<>>
FailUnderOf(name) == StoredFailUnder(meta_cfg_file[name])[1]

\* the tokens that follow the first occurrence of `token`, at most n of them
TokensAfter(text, token, n) ==
    LET i == IndexOf(text, token)
    IN  IF i = 0 THEN <<>>
        ELSE SubSeq(text, i + 1, IF i + n <= Len(text) THEN i + n ELSE Len(text))

\* the tokens after `token` up to the end of its line
RestOfLine(text, token) ==
    LET i == IndexOf(text, token)
        e == IndexFrom(text, NL, i + 1)
    IN  IF i = 0 THEN <<>>
        ELSE SubSeq(text, i + 1, IF e = 0 THEN Len(text) ELSE e - 1)

\* pairwise different elements
NoDuplicates(seq) == \A i, j \in DOMAIN seq : i # j => seq[i] # seq[j]

IsPrefix(a, b) == Len(a) <= Len(b) /\ SubSeq(b, 1, Len(a)) = a

\* M <= X on (major, minor) tuples
TupleLeq(m, x) == m[1] < x[1] \/ (m[1] = x[1] /\ m[2] <= x[2])

\* positions of the script at which the flags are resolved and the run goes on
ResolvedPcs ==
    {"copy", "render", "chdir", "rm_bootstrap", "rm_travis", "tox", "write_meta",
     "list_branches", "checkout", "git_add", "commit", "push"}

C2_ToxDeclinedAborts ==
    ToxDeclined =>
        /\ pc = "exited"
        /\ exit_code = last_call.returncode
        /\ ~MetaWritten
        /\ issued \cap BranchCommands = {}

C2_Witness ==
    /\ pc = "exited"
    /\ ToxDeclined
    /\ last_call.answer = "n"
    /\ exit_code = 2
    /\ getcwd = StartDir

C4_FlagsMonotonic ==
    /\ [][ \A n \in RepoNames : \A key \in {"with-pypy", "support_legacy_python"} :
             meta_cfg_file'[n] # meta_cfg_file[n] /\ StoredTrue(meta_cfg_file[n], key)
                 => StoredTrue(meta_cfg_file'[n], key) ]_vars
    /\ [](pc \in ResolvedPcs =>
            LET stored == StoredOptions(meta_cfg_file[args.path])
            IN  /\ getboolean(stored, "with-pypy", FALSE) =>
                      with_pypy /\ GetOption(meta_cfg, "with-pypy") = <<"True">>
                /\ getboolean(stored, "support_legacy_python", FALSE) =>
                      /\ support_legacy_python
                      /\ GetOption(meta_cfg, "support_legacy_python") = <<"True">>)

\* a second run without either flag has written .meta.cfg with both true
C4_Witness ==
    /\ runs = 2
    /\ pc = "list_branches"
    /\ ~args.with_pypy
    /\ ~args.support_legacy_python
    /\ MetaWritten
    /\ PersistedTrue(args.path, "with-pypy")
    /\ PersistedTrue(args.path, "support_legacy_python")

\* ------------------------------------------------------------------ C5
\* C5: when the process has ended, on whatever path, its working directory is
\* the directory it was started in.
C5_CwdRestored == pc = "exited" => getcwd = StartDir

\* the run had changed into the repository and was aborted
C5_Witness ==
    /\ pc = "exited"
    /\ cwd = StartDir
    /\ exit_code # 0
    /\ getcwd = StartDir

\* ------------------------------------------------------------------ C6
\* C6: get_supported_versions returns, after the one entry (2, 7) present
\* exactly when legacy support is asked for, the pairs (3, m) for m from the
\* minimum's minor to 9 in increasing order when the minimum is at most
\* (3, 9), and nothing when it is larger.
C6_VersionsMatchReference ==
    pc \in {"fn_versions", "fn_matrix", "fn_environs"} =>
        LET M == args.min_version
            X == MAX_PYTHON
            legacy == args.support_legacy_python
            body == IF legacy /\ versions # <<>> THEN Tail(versions) ELSE versions
        IN  /\ legacy => versions # <<>> /\ versions[1] = <<2, 7>>
            /\ <<2, 7>> \notin Range(body)
            /\ \A i, j \in DOMAIN body : i < j => body[i][2] < body[j][2]
            /\ \A i \in DOMAIN body : body[i][1] = M[1]
            /\ {body[i][2] : i \in DOMAIN body} = {m \in 0..20 : M[2] <= m /\ m <= X[2]}
            /\ ~TupleLeq(M, X) => body = <<>>
            /\ TupleLeq(M, X) => Len(body) = X[2] - M[2] + 1

\* the empty range with the legacy entry alone, and a full range
C6_Witness ==
    /\ pc = "fn_versions"
    /\ args.min_version = <<3, 10>>
    /\ args.support_legacy_python
    /\ versions = << <<2, 7>> >>

\* ------------------------------------------------------------------ C7
\* the coverage option the run has written into tox.ini
ToxIniCoverageOptions == RestOfLine(written["tox.ini"], "coverage report ")

\* C7: a fail-under stored in a repository's .meta.cfg is never changed or
\* removed by any step; the step that writes tox.ini passes --fail-under with
\* the value stored for the run's repository, and with "0" when no .meta.cfg
\* or no fail-under is stored; and the step that writes .meta.cfg stores the
\* value the run has passed to --fail-under.
C7_FailUnderPreserved ==
    /\ [][ \A n \in RepoNames :
             meta_cfg_file'[n] # meta_cfg_file[n] /\ HasFailUnder(n)
                 => StoredFailUnder(meta_cfg_file'[n]) = StoredFailUnder(meta_cfg_file[n])
          ]_vars
    /\ [][ "tox.ini" \notin DOMAIN written /\ "tox.ini" \in DOMAIN written' =>
             LET stored == StoredFailUnder(meta_cfg_file[args.path])
             IN  RestOfLine(written'["tox.ini"], "coverage report ") =
                     << "--fail-under=" >> \o
                     (IF stored # <<>> THEN stored[1] ELSE <<"0">>)
          ]_vars
    /\ [][ meta_cfg_file' # meta_cfg_file =>
             << "--fail-under=" >> \o StoredFailUnder(meta_cfg_file'[args.path])[1]
                 = ToxIniCoverageOptions
          ]_vars

\* a run on the repository whose fail-under is 85 has used 85 and stored it
C7_Witness ==
    /\ pc = "list_branches"
    /\ args.path = <<"a">>
    /\ MetaWritten
    /\ ToxIniCoverageOptions = << "--fail-under=", "85" >>
    /\ FailUnderOf(<<"a">>) = <<"85">>
    /\ written[".meta.cfg"] = meta_cfg_file[<<"a">>].data

\* ------------------------------------------------------------------ C8
\* what the Checkout step does, given whether the run's branch existed
CheckoutFollows(existed) ==
    /\ existed => last_call'.cmd = "git checkout" /\ repo_branches' = repo_branches
    /\ ~existed => last_call'.cmd = "git checkout -b"
    /\ pc' = "git_add" => updating' = existed

\* the status line tells an update exactly when the existing branch was
\* checked out, and the first-time outcome exactly when git checkout -b ran
ReportFollowsCheckout ==
    reported # "" =>
        /\ reported = UpdatedMessage <=> "git checkout" \in issued
        /\ reported = CreateMessage <=> "git checkout -b" \in issued

UniversalWheelWritten == RestOfLine(written["setup.cfg"], "universal = ")

\* the first environment of tox.ini's envlist and the first row of the CI matrix
Py27Environs == << NL, "    ", "py", "2", "7", "," >>
Py27Matrix == << NL, "        - [\"", "2", ".", "7", "\", \"", "py", "2", "7", "\"]" >>

\* C9 as stated: once a run has written setup.cfg, tox.ini and tests.yml,
\* universal is 1 exactly when (2, 7) is the first supported version, py27
\* the first environment of tox.ini and ["2.7", "py27"] the first row of the
\* CI matrix.
C9_UniversalWheelIffLegacyVersion ==
    {"setup.cfg", "tox.ini", ".github/workflows/tests.yml"} \subseteq DOMAIN written =>
        LET universal == UniversalWheelWritten = <<"1">>
        IN  /\ UniversalWheelWritten \in {<<"0">>, <<"1">>}
            /\ universal <=> (versions # <<>> /\ versions[1] = <<2, 7>>)
            /\ universal <=>
                  TokensAfter(written["tox.ini"], "envlist =", Len(Py27Environs))
                      = Py27Environs
            /\ universal <=>
                  TokensAfter(written[".github/workflows/tests.yml"], "config:",
                              Len(Py27Matrix)) = Py27Matrix

\* ----------------------------------------------------------------- C10
\* the files copy_with_meta writes
CopiedFiles == {"setup.cfg", "MANIFEST.in", ".editorconfig", ".gitignore", ".coveragerc"}

\* C10 as stated: when the run stages and commits, every copied file begins
\* with the two provenance lines of the run's config type.
C10_CopiedFilesKeepHint ==
    pc \in {"git_add", "commit"} =>
        \A f \in CopiedFiles \cap DOMAIN written :
            StartsWith(written[f], META_HINT(args.type))

====
